---- MODULE Spec2Model ----
(***************************************************************************)
(* The grid-scan acquisition engine of nplab (experiment/gridscanner.py):  *)
(* GridScanner / GridScannerQT.  The object's attributes are the variables,*)
(* the caller (GUI) context and every scan thread are processes with a     *)
(* program counter, and each statement of scan_grid that reads or writes   *)
(* an attribute another context can see is one step.                       *)
(*                                                                         *)
(* Numbers.  size, step, init and the grid coordinates are float64 in the  *)
(* source.  The model keeps them as exact decimals <<m, e>> = m * 10^e in  *)
(* normal form (m not divisible by 10, zero is <<0, 0>>); the unit table   *)
(* {nm: 1e-9, um: 1e-6, mm: 1e-3} is the table of exponents -9, -6, -3.    *)
(* float64 rounding (of relative order 1e-16) is not represented.          *)
(***************************************************************************)
EXTENDS Integers, Sequences, FiniteSets, TLC

\* ------------------------------------------------------------------ bounds
MaxAxes == 4
MaxSize == 2
MaxStarts == 2
MaxPoints == 21
MaxMant == 2
MaxUnitOps == 3
MaxCfgOps == 2
MaxVary == 1
MaxDt == 2

\* --------------------------------------------------------- decimal numbers
Units == {"nm", "um", "mm"}

unit_conversion(u) == CASE u = "nm" -> -9 [] u = "um" -> -6 [] u = "mm" -> -3

Pow10[n \in Nat] == IF n = 0 THEN 1 ELSE 10 * Pow10[n - 1]

RECURSIVE Norm(_)
Norm(v) ==
    IF v[1] = 0 THEN <<0, 0>>
    ELSE IF v[1] % 10 = 0 THEN Norm(<<v[1] \div 10, v[2] + 1>>)
    ELSE v

\* v * 10^k
Scale(v, k) == Norm(<<v[1], v[2] + k>>)

\* the integer n with v = n * 10^e0, for e0 <= the exponent of v
Align(v, e0) == v[1] * Pow10[v[2] - e0]

Min2(a, b) == IF a < b THEN a ELSE b

Max2(a, b) == IF a > b THEN a ELSE b

\* ceil(a / b) for b > 0
CeilDiv(a, b) == -((-a) \div b)

\* len(np.arange(0, stop, st)) = max(0, ceil(stop / st)), on integers
ArangeLen(stop, st) ==
    IF st > 0 THEN Max2(0, CeilDiv(stop, st)) ELSE Max2(0, CeilDiv(-stop, -st))

\* One axis of init_grid: s, st, s0 are size, step and init in the base unit.
\* ax = np.arange(0, s+st/2., st) - s/2. + s0; numpy raises for st = 0.
AxisE0(s, st, s0) == Min2(Min2(s[2], st[2]), s0[2]) - 1

AxisLen(s, st, s0) ==
    LET e0 == AxisE0(s, st, s0)
        S == Align(s, e0)
        T == Align(st, e0)
    IN  ArangeLen(S + T \div 2, T)

\* ax[i], i counted from 0
AxisCoord(s, st, s0, i) ==
    LET e0 == AxisE0(s, st, s0)
    IN  Norm(<<i * Align(st, e0) - Align(s, e0) \div 2 + Align(s0, e0), e0>>)

\* BuildAxis as np.arange(0, s, st), without the half step of tolerance (faulty variant)
BuildAxisNoTol(s, st, s0) ==
    LET e0 == AxisE0(s, st, s0)
        n == ArangeLen(Align(s, e0), Align(st, e0))
    IN  [i \in 1..n |-> AxisCoord(s, st, s0, i - 1)]

BuildAxis(s, st, s0) == [i \in 1..AxisLen(s, st, s0) |-> AxisCoord(s, st, s0, i - 1)]

\* init_grid(axes, size, step, init): [err, scan_axes]; err is the exception
\* numpy raises from np.arange for a zero step.
GridError(n, size, step) == \E a \in 1..n : step[a][1] = 0

InitGrid(n, size, step, init, su, stu, iu) ==
    [a \in 1..n |-> BuildAxis(Scale(size[a], unit_conversion(su)),
                              Scale(step[a], unit_conversion(stu)),
                              Scale(init[a], unit_conversion(iu)))]

\* GridShape with the lengths in reversed axis order (faulty variant)
GridShapeReversed(sa) == [a \in 1..Len(sa) |-> Len(sa[Len(sa) + 1 - a])]

\* tuple(ax.size for ax in scan_axes)
GridShape(sa) == [a \in 1..Len(sa) |-> Len(sa[a])]

RECURSIVE Product(_)
Product(s) == IF Len(s) = 0 THEN 1 ELSE Head(s) * Product(Tail(s))

\* ------------------------------------------------------------------- state
VARIABLES
    isQT,                \* the instance is a GridScannerQT
    num_axes, size, step, init, size_unit, step_unit, init_unit,
    scan_axes, grid_shape, total_points,
    status, abort_requested, acquiring, index, indices, step_times,
    acquisition_thread,  \* 0 for None, else the Thread object
    timer_active,        \* GridScannerQT.timer
    th,                  \* the Thread objects: frame of scan_grid and its position
                         \* (alias: the arguments that still are the object's arrays;
                         \* shape: the shape of the grid the thread built;
                         \* dt: the time the last scan_function call took)
    cpc,                 \* position of the caller (GUI) context
    callerRes,           \* how the caller's last call ended
    nstarts,             \* Thread objects created so far
    log,                 \* calls made on the stage and the hooks since the last spawn
    callsAfterAbort,     \* scan_function calls begun with abort_requested true
    startSnap,           \* what the last start() that spawned a thread returned to
    abortRet,            \* what the last abort() that joined a thread returned to
    trip,                \* the state before each of the last two unit changes
    unitOps,             \* unit changes asked for so far
    built,               \* init_current_grid ran on size, step and init as they are
    axes, axes_names,    \* the axis identifiers of the stage and their names
    cfgOps,              \* vary_axes and num_axes changes made so far
    upd                  \* the frame of the last _update_axes call

cfgVars == <<isQT, num_axes, axes, axes_names, size, step, init, size_unit, step_unit, init_unit>>

gridVars == <<scan_axes, grid_shape, total_points>>

scanVars == <<status, abort_requested, acquiring, index, indices, step_times>>

callerVars == <<acquisition_thread, timer_active, cpc, callerRes, nstarts>>

ghostVars == <<callsAfterAbort, startSnap, abortRet>>

unitVars == <<trip, unitOps, built, cfgOps, upd>>

vars == <<cfgVars, gridVars, scanVars, callerVars, ghostVars, unitVars, th, log>>

Threads == 1..MaxStarts

\* status values: self.status = 'inactive' | 'acquiring data' |
\* 'Scanning layer k/N' | 'scan complete'
Status(s, k, n) == [s |-> s, k |-> k, n |-> n]

\* an entry of _step_times: NaN, or a finite number of time units
NaN == [fin |-> FALSE, v |-> 0]

Finite(v) == [fin |-> TRUE, v |-> v]

\* the index tuples of an array of the given shape
RECURSIVE IndexTuples(_)
IndexTuples(shape) ==
    IF Len(shape) = 0 THEN {<<>>}
    ELSE {Append(x, i) : x \in IndexTuples(SubSeq(shape, 1, Len(shape) - 1)),
                         i \in 0..(shape[Len(shape)] - 1)}

NoStepTimes == [has |-> FALSE, shape |-> <<>>, val |-> <<>>]

\* a call on the stage or on a hook, as the log keeps it
\* (ok: the call returned; otherwise it raised)
Ev(op, t, axis, pos, idx, ok) ==
    [op |-> op, t |-> t, axis |-> axis, pos |-> pos, idx |-> idx, ok |-> ok]

Call(op, t) == Ev(op, t, 0, <<0, 0>>, <<>>, TRUE)

\* a call of scan_function with the time it took, in time units
ScanEv(t, idx, ok, dt) ==
    [op |-> "scan_function", t |-> t, axis |-> 0, pos |-> <<0, 0>>, idx |-> idx,
     ok |-> ok, dt |-> dt]

NoThread ==
    [pc |-> "none", fail |-> "none", entered |-> FALSE, n |-> 0,
     size |-> <<>>, step |-> <<>>, init |-> <<>>, alias |-> {}, shape |-> <<>>,
     sa |-> <<>>, pnts |-> <<>>, kpos |-> 0, jpos |-> 0, ipos |-> 0, r |-> 0,
     dt |-> 0]

\* threading.Thread.is_alive()
Alive(t) == th[t].pc \notin {"none", "done", "failed"}

Range(n) == [i \in 1..n |-> i - 1]

Reverse(s) == [i \in 1..Len(s) |-> s[Len(s) + 1 - i]]

\* ------------------------------------------------------------------- start
\* GridScanner.__init__: 1.0 / 0.05 / 0.0 um on every axis, the grid built
\* from them, no thread, no _step_times yet.
DefaultGrid(n) ==
    InitGrid(n, [a \in 1..n |-> <<1, 0>>], [a \in 1..n |-> <<5, -2>>],
             [a \in 1..n |-> <<0, 0>>], "um", "um", "um")

NoTrip ==
    [n |-> 0, p |-> "none", req |-> "um", u2 |-> "um", a2 |-> <<>>, u1 |-> "um", a1 |-> <<>>]

\* the identifier of the a-th axis of the stage (Stage.axis_names), a string
\* such as '1': str(ax) of it is the identifier itself
AxisName(a) == ToString(a)

NoUpdate == [m |-> 0, axes |-> <<>>, names |-> <<>>, size |-> <<>>, step |-> <<>>, init |-> <<>>]

InitObject(n) ==
    /\ num_axes = n
    /\ axes = [a \in 1..n |-> AxisName(a)]
    /\ axes_names = [a \in 1..n |-> AxisName(a)]
    /\ cfgOps = 0
    /\ upd = NoUpdate
    /\ size_unit = "um" /\ step_unit = "um" /\ init_unit = "um"
    /\ scan_axes = DefaultGrid(n)
    /\ grid_shape = GridShape(DefaultGrid(n))
    /\ total_points = Product(GridShape(DefaultGrid(n)))
    /\ status = Status("inactive", 0, 0)
    /\ abort_requested = FALSE
    /\ acquiring = FALSE
    /\ index = -1
    /\ indices = <<>>
    /\ step_times = NoStepTimes
    /\ acquisition_thread = 0
    /\ timer_active = FALSE
    /\ th = [t \in Threads |-> NoThread]
    /\ cpc = "idle"
    /\ callerRes = "none"
    /\ nstarts = 0
    /\ log = <<>>
    /\ callsAfterAbort = 0
    /\ startSnap = [valid |-> FALSE, t |-> 0, entered |-> FALSE]
    /\ abortRet = [valid |-> FALSE, t |-> 0, loglen |-> 0]
    /\ trip = NoTrip
    /\ unitOps = 0
    /\ built = FALSE

\* The scan configurations: the object as constructed, then size, step and init
\* as the user set them (GridScannerUI.set_param) before the first start().
\* Sizes of 1..MaxSize um with a step of 1 um (2..MaxSize+1 points per axis),
\* the same on every axis or the largest on the first axis only; one axis may
\* carry a zero or a negative step.
SizePatterns(n) ==
    {[a \in 1..n |-> <<s, 0>>] : s \in 1..MaxSize}
    \cup {[a \in 1..n |-> IF a = 1 THEN <<MaxSize, 0>> ELSE <<1, 0>>]}

StepPatterns(n) ==
    {[a \in 1..n |-> <<1, 0>>]}
    \cup {[a \in 1..n |-> IF a = b THEN <<s, 0>> ELSE <<1, 0>>] : b \in 1..n, s \in {-1, 0}}

Init ==
    /\ isQT \in BOOLEAN
    /\ \E n \in 1..MaxAxes : InitObject(n)
    /\ size \in SizePatterns(num_axes)
    /\ step \in StepPatterns(num_axes)
    /\ init = [a \in 1..num_axes |-> <<5, 0>>]

\* ------------------------------------------------------- the caller context
NewThread ==
    [NoThread EXCEPT !.pc = "reset", !.n = num_axes, !.size = size, !.step = step,
                     !.init = init, !.alias = {"size", "step", "init"}]

NoAbortRet == [valid |-> FALSE, t |-> 0, loglen |-> 0]

\* self.init_scan(); self.acquisition_thread = threading.Thread(...); its start()
Spawn ==
    /\ nstarts < MaxStarts
    /\ callerRes' = "spawned"
    /\ nstarts' = nstarts + 1
    /\ acquisition_thread' = nstarts + 1
    /\ th' = [th EXCEPT ![nstarts + 1] = NewThread]
    /\ log' = <<Call("init_scan", nstarts + 1)>>
    /\ abortRet' = NoAbortRet

\* GridScanner_start without the is_alive() test before the spawn (faulty variant)
GridScanner_startNoCheck == Spawn

\* GridScanner_start with init_scan() called before the is_alive() test
\* (faulty variant)
GridScanner_startInitFirst ==
    IF acquisition_thread # 0 /\ Alive(acquisition_thread)
    THEN /\ callerRes' = "already_running"
         /\ log' = Append(log, Call("init_scan", acquisition_thread))
         /\ UNCHANGED <<nstarts, acquisition_thread, th, abortRet>>
    ELSE Spawn

\* GridScanner.start
GridScanner_start ==
    IF acquisition_thread # 0 /\ Alive(acquisition_thread)
    THEN /\ callerRes' = "already_running"
         /\ UNCHANGED <<nstarts, acquisition_thread, th, log, abortRet>>
    ELSE Spawn

\* start() of a GridScanner that is no GridScannerQT
Start ==
    /\ ~isQT /\ cpc = "idle"
    /\ GridScanner_start
    /\ startSnap' = IF callerRes' = "spawned"
                    THEN [valid |-> TRUE, t |-> nstarts', entered |-> FALSE]
                    ELSE startSnap
    /\ UNCHANGED <<cfgVars, gridVars, scanVars, unitVars, timer_active, cpc, callsAfterAbort>>

\* GridScannerQT.start: super().start(), then self.acquiring.wait()
StartQT ==
    /\ isQT /\ cpc = "idle"
    /\ GridScanner_start
    /\ cpc' = "qt_wait"
    /\ UNCHANGED <<cfgVars, gridVars, scanVars, unitVars, timer_active, callsAfterAbort, startSnap>>

\* GridScannerQT.start: acquiring.wait() finds the flag clear and blocks
\* until a set() notifies it
QtWaitBlock ==
    /\ cpc = "qt_wait"
    /\ ~acquiring
    /\ cpc' = "qt_blocked"
    /\ UNCHANGED <<cfgVars, gridVars, scanVars, unitVars, ghostVars, th, log,
                   acquisition_thread, timer_active, callerRes, nstarts>>

\* GridScannerQT.start: acquiring.wait() returns (the flag was set at the call,
\* or a set() has notified the waiter), self.timer.start(...)
QtWaitReturn ==
    /\ (cpc = "qt_wait" /\ acquiring) \/ cpc = "qt_woken"
    /\ cpc' = "idle"
    /\ timer_active' = TRUE
    /\ startSnap' = IF callerRes = "spawned"
                    THEN [valid |-> TRUE, t |-> acquisition_thread,
                          entered |-> th[acquisition_thread].entered]
                    ELSE startSnap
    /\ UNCHANGED <<cfgVars, gridVars, scanVars, unitVars, th, log, acquisition_thread,
                   callerRes, nstarts, callsAfterAbort, abortRet>>

\* GridScanner.abort, up to the is_alive() test.  acquisition_thread is always an
\* attribute; while it is None, None.is_alive() raises AttributeError.
Abort ==
    /\ cpc = "idle"
    /\ IF acquisition_thread = 0
       THEN callerRes' = "AttributeError" /\ cpc' = cpc
       ELSE IF Alive(acquisition_thread)
            THEN callerRes' = "aborting" /\ cpc' = "abort_set"
            ELSE callerRes' = "abort_noop" /\ cpc' = cpc
    /\ UNCHANGED <<cfgVars, gridVars, scanVars, unitVars, ghostVars, th, log,
                   acquisition_thread, timer_active, nstarts>>

\* self.abort_requested = True
AbortSet ==
    /\ cpc = "abort_set"
    /\ abort_requested' = TRUE
    /\ cpc' = "join"
    /\ UNCHANGED <<cfgVars, gridVars, unitVars, ghostVars, th, log, status, acquiring,
                   index, indices, step_times, acquisition_thread, timer_active,
                   callerRes, nstarts>>

\* self.acquisition_thread.join() returns
AbortJoin ==
    /\ cpc = "join"
    /\ ~Alive(acquisition_thread)
    /\ cpc' = "idle"
    /\ callerRes' = "aborted"
    /\ abortRet' = [valid |-> TRUE, t |-> acquisition_thread, loglen |-> Len(log)]
    /\ UNCHANGED <<cfgVars, gridVars, scanVars, unitVars, th, log, acquisition_thread,
                   timer_active, nstarts, callsAfterAbort, startSnap>>

\* --------------------------------------------------- the scan thread: set-up
Goto(t, pc) == th' = [th EXCEPT ![t].pc = pc]

\* a thread that has ended: its frame is gone, the arguments it ran with are kept
Ended(f, pc, why) ==
    [NoThread EXCEPT !.pc = pc, !.fail = why, !.entered = f.entered, !.n = f.n,
                     !.size = f.size, !.step = f.step, !.init = f.init, !.shape = f.shape]

\* an exception leaves scan_grid: nothing in it catches one, the thread ends
Raise(t, where) == th' = [th EXCEPT ![t] = Ended(th[t], "failed", where)]

\* Reset where abort_requested is left as the last scan left it (faulty variant)
ResetKeepsFlag(t) ==
    /\ th[t].pc = "reset"
    /\ callsAfterAbort' = 0
    /\ Goto(t, "init_grid")
    /\ UNCHANGED <<cfgVars, gridVars, unitVars, callerVars, log, status, acquiring,
                   index, indices, step_times, startSnap, abortRet, abort_requested>>

\* self.abort_requested = False
Reset(t) ==
    /\ th[t].pc = "reset"
    /\ abort_requested' = FALSE
    /\ callsAfterAbort' = 0
    /\ Goto(t, "init_grid")
    /\ UNCHANGED <<cfgVars, gridVars, unitVars, callerVars, log, status, acquiring,
                   index, indices, step_times, startSnap, abortRet>>

\* scan_axes = self.init_grid(axes, size, step, init)
InitGridStep(t) ==
    /\ th[t].pc = "init_grid"
    /\ IF GridError(th[t].n, th[t].size, th[t].step)
       THEN /\ Raise(t, "init_grid")
            /\ UNCHANGED gridVars
       ELSE LET sa == InitGrid(th[t].n, th[t].size, th[t].step, th[t].init,
                               size_unit, step_unit, init_unit)
            IN  /\ scan_axes' = sa
                /\ grid_shape' = GridShape(sa)
                /\ total_points' = Product(GridShape(sa))
                /\ th' = [th EXCEPT ![t].pc = "open_scan", ![t].sa = sa,
                                    ![t].shape = GridShape(sa)]
    /\ UNCHANGED <<cfgVars, scanVars, unitVars, callerVars, ghostVars, log>>

\* self.open_scan()
OpenScan(t) ==
    /\ th[t].pc = "open_scan"
    /\ log' = Append(log, Call("open_scan", t))
    /\ Goto(t, "indices")
    /\ UNCHANGED <<cfgVars, gridVars, scanVars, unitVars, callerVars, ghostVars>>

\* pnts = [range(axis.size) for axis in scan_axes]; self.indices = (-1,) * len(axes)
SetIndices(t) ==
    /\ th[t].pc = "indices"
    /\ indices' = [a \in 1..th[t].n |-> -1]
    /\ th' = [th EXCEPT ![t].pc = "index0",
                        ![t].pnts = [a \in 1..th[t].n |-> Range(Len(th[t].sa[a]))]]
    /\ UNCHANGED <<cfgVars, gridVars, unitVars, callerVars, ghostVars, log, status,
                   abort_requested, acquiring, index, step_times>>

\* self._index = 0
Index0(t) ==
    /\ th[t].pc = "index0"
    /\ index' = 0
    /\ Goto(t, "zeros")
    /\ UNCHANGED <<cfgVars, gridVars, unitVars, callerVars, ghostVars, log, status,
                   abort_requested, acquiring, indices, step_times>>

\* self._step_times = np.zeros(self.grid_shape)
Zeros(t) ==
    /\ th[t].pc = "zeros"
    /\ step_times' = [has |-> TRUE, shape |-> grid_shape,
                      val |-> [x \in IndexTuples(grid_shape) |-> Finite(0)]]
    /\ Goto(t, "fill_nan")
    /\ UNCHANGED <<cfgVars, gridVars, unitVars, callerVars, ghostVars, log, status,
                   abort_requested, acquiring, index, indices>>

\* self._step_times.fill(np.nan)
FillNan(t) ==
    /\ th[t].pc = "fill_nan"
    /\ step_times' = [step_times EXCEPT !.val = [x \in DOMAIN step_times.val |-> NaN]]
    /\ Goto(t, "status_acq")
    /\ UNCHANGED <<cfgVars, gridVars, unitVars, callerVars, ghostVars, log, status,
                   abort_requested, acquiring, index, indices>>

\* self.status = 'acquiring data'
StatusAcq(t) ==
    /\ th[t].pc = "status_acq"
    /\ status' = Status("acquiring data", 0, 0)
    /\ th' = [th EXCEPT ![t].pc = "acq_set", ![t].entered = TRUE]
    /\ UNCHANGED <<cfgVars, gridVars, unitVars, callerVars, ghostVars, log,
                   abort_requested, acquiring, index, indices, step_times>>

\* self.acquiring.set()
AcqSet(t) ==
    /\ th[t].pc = "acq_set"
    /\ acquiring' = TRUE
    /\ cpc' = IF cpc = "qt_blocked" THEN "qt_woken" ELSE cpc
    /\ Goto(t, "k_head")
    /\ UNCHANGED <<cfgVars, gridVars, unitVars, ghostVars, log, status,
                   abort_requested, index, indices, step_times,
                   acquisition_thread, timer_active, callerRes, nstarts>>

\* ------------------------------------------------ the scan thread: traversal
KVal(t) == th[t].pnts[th[t].n][th[t].kpos]

JVal(t) == th[t].pnts[th[t].n - 1][th[t].jpos]

IVal(t) == th[t].pnts[th[t].n - 2][th[t].ipos]

\* self.move(position, axis): the call may raise (the stage is hardware)
Move(t, op, axis, pos, ok) == log' = Append(log, Ev(op, t, axis, pos, <<>>, ok))

\* for k in pnts[-1]: if self.abort_requested: break
KHead(t) ==
    /\ th[t].pc = "k_head"
    /\ IF th[t].kpos = Len(th[t].pnts[th[t].n])
       THEN Goto(t, "after_loop")
       ELSE th' = [th EXCEPT ![t].kpos = @ + 1,
                             ![t].pc = IF abort_requested THEN "after_loop" ELSE "drift"]
    /\ UNCHANGED <<cfgVars, gridVars, scanVars, unitVars, callerVars, ghostVars, log>>

\* Drift where the hook is called before the first layer only (faulty variant)
DriftFirstLayerOnly(t) ==
    /\ th[t].pc = "drift"
    /\ log' = IF th[t].kpos = 1 THEN Append(log, Call("update_drift_compensation", t)) ELSE log
    /\ Goto(t, "layer_status")
    /\ UNCHANGED <<cfgVars, gridVars, scanVars, unitVars, callerVars, ghostVars>>

\* self.update_drift_compensation()
Drift(t) ==
    /\ th[t].pc = "drift"
    /\ log' = Append(log, Call("update_drift_compensation", t))
    /\ Goto(t, "layer_status")
    /\ UNCHANGED <<cfgVars, gridVars, scanVars, unitVars, callerVars, ghostVars>>

\* self.status = 'Scanning layer {0:d}/{1:d}'.format(k + 1, len(pnts[-1]))
LayerStatus(t) ==
    /\ th[t].pc = "layer_status"
    /\ status' = Status("Scanning layer", KVal(t) + 1, Len(th[t].pnts[th[t].n]))
    /\ Goto(t, "move_k")
    /\ UNCHANGED <<cfgVars, gridVars, unitVars, callerVars, ghostVars, log,
                   abort_requested, acquiring, index, indices, step_times>>

\* self.move(scan_axes[-1][k], axes[-1])
MoveK(t) ==
    /\ th[t].pc = "move_k"
    /\ \E ok \in BOOLEAN :
        /\ Move(t, "move", th[t].n, th[t].sa[th[t].n][KVal(t) + 1], ok)
        /\ IF ok THEN Goto(t, "rev_j") ELSE Raise(t, "traversal")
    /\ UNCHANGED <<cfgVars, gridVars, scanVars, unitVars, callerVars, ghostVars>>

\* RevJ where the inner axis is not reversed: raster order (faulty variant)
RevJNoReverse(t) ==
    /\ th[t].pc = "rev_j"
    /\ IF th[t].n < 2
       THEN Raise(t, "IndexError")
       ELSE th' = [th EXCEPT ![t].pc = "j_head", ![t].jpos = 0]
    /\ UNCHANGED <<cfgVars, gridVars, scanVars, unitVars, callerVars, ghostVars, log>>

\* pnts[-2] = pnts[-2][::-1]; with a single axis pnts[-2] raises IndexError
RevJ(t) ==
    /\ th[t].pc = "rev_j"
    /\ IF th[t].n < 2
       THEN Raise(t, "IndexError")
       ELSE th' = [th EXCEPT ![t].pc = "j_head", ![t].jpos = 0,
                             ![t].pnts[th[t].n - 1] = Reverse(@)]
    /\ UNCHANGED <<cfgVars, gridVars, scanVars, unitVars, callerVars, ghostVars, log>>

\* JHead where the middle loop does not test abort_requested (faulty variant)
JHeadNoAbortCheck(t) ==
    /\ th[t].pc = "j_head"
    /\ IF th[t].jpos = Len(th[t].pnts[th[t].n - 1])
       THEN Goto(t, "k_head")
       ELSE th' = [th EXCEPT ![t].jpos = @ + 1, ![t].pc = "move_j"]
    /\ UNCHANGED <<cfgVars, gridVars, scanVars, unitVars, callerVars, ghostVars, log>>

\* JHead where the middle loop stops before the last entry of pnts[-2]
\* (faulty variant)
JHeadStopEarly(t) ==
    /\ th[t].pc = "j_head"
    /\ IF th[t].jpos >= Len(th[t].pnts[th[t].n - 1]) - 1
       THEN Goto(t, "k_head")
       ELSE th' = [th EXCEPT ![t].jpos = @ + 1,
                             ![t].pc = IF abort_requested THEN "k_head" ELSE "move_j"]
    /\ UNCHANGED <<cfgVars, gridVars, scanVars, unitVars, callerVars, ghostVars, log>>

\* for j in pnts[-2]: if self.abort_requested: break
JHead(t) ==
    /\ th[t].pc = "j_head"
    /\ IF th[t].jpos = Len(th[t].pnts[th[t].n - 1])
       THEN Goto(t, "k_head")
       ELSE th' = [th EXCEPT ![t].jpos = @ + 1,
                             ![t].pc = IF abort_requested THEN "k_head" ELSE "move_j"]
    /\ UNCHANGED <<cfgVars, gridVars, scanVars, unitVars, callerVars, ghostVars, log>>

\* MoveJ with an else branch that raises for len(axes) other than 2 and 3
\* (faulty variant)
MoveJRaiseOnOther(t) ==
    /\ th[t].pc = "move_j"
    /\ \E ok \in BOOLEAN :
        /\ Move(t, "move", th[t].n - 1, th[t].sa[th[t].n - 1][JVal(t) + 1], ok)
        /\ IF ~ok THEN Raise(t, "traversal")
           ELSE IF th[t].n = 3 THEN Goto(t, "rev_i")
           ELSE IF th[t].n = 2 THEN Goto(t, "scan_call")
           ELSE Raise(t, "NotImplementedError")
    /\ UNCHANGED <<cfgVars, gridVars, scanVars, unitVars, callerVars, ghostVars>>

\* MoveJ where every scan of three or more axes takes the branch of the 3-D
\* scan (faulty variant)
MoveJThreeOrMore(t) ==
    /\ th[t].pc = "move_j"
    /\ \E ok \in BOOLEAN :
        /\ Move(t, "move", th[t].n - 1, th[t].sa[th[t].n - 1][JVal(t) + 1], ok)
        /\ IF ~ok THEN Raise(t, "traversal")
           ELSE IF th[t].n >= 3 THEN Goto(t, "rev_i")
           ELSE IF th[t].n = 2 THEN Goto(t, "scan_call")
           ELSE Goto(t, "j_head")
    /\ UNCHANGED <<cfgVars, gridVars, scanVars, unitVars, callerVars, ghostVars>>

\* self.move(scan_axes[-2][j], axes[-2]), then the test of len(axes)
MoveJ(t) ==
    /\ th[t].pc = "move_j"
    /\ \E ok \in BOOLEAN :
        /\ Move(t, "move", th[t].n - 1, th[t].sa[th[t].n - 1][JVal(t) + 1], ok)
        /\ IF ~ok THEN Raise(t, "traversal")
           ELSE IF th[t].n = 3 THEN Goto(t, "rev_i")
           ELSE IF th[t].n = 2 THEN Goto(t, "scan_call")
           ELSE Goto(t, "j_head")
    /\ UNCHANGED <<cfgVars, gridVars, scanVars, unitVars, callerVars, ghostVars>>

\* RevI where the first axis is not reversed: every row ascending (faulty variant)
RevINoReverse(t) ==
    /\ th[t].pc = "rev_i"
    /\ th' = [th EXCEPT ![t].pc = "i_head", ![t].ipos = 0]
    /\ UNCHANGED <<cfgVars, gridVars, scanVars, unitVars, callerVars, ghostVars, log>>

\* pnts[-3] = pnts[-3][::-1]
RevI(t) ==
    /\ th[t].pc = "rev_i"
    /\ th' = [th EXCEPT ![t].pc = "i_head", ![t].ipos = 0,
                        ![t].pnts[th[t].n - 2] = Reverse(@)]
    /\ UNCHANGED <<cfgVars, gridVars, scanVars, unitVars, callerVars, ghostVars, log>>

\* for i in pnts[-3]: if self.abort_requested: break
IHead(t) ==
    /\ th[t].pc = "i_head"
    /\ IF th[t].ipos = Len(th[t].pnts[th[t].n - 2])
       THEN Goto(t, "j_head")
       ELSE th' = [th EXCEPT ![t].ipos = @ + 1,
                             ![t].pc = IF abort_requested THEN "j_head" ELSE "move_i"]
    /\ UNCHANGED <<cfgVars, gridVars, scanVars, unitVars, callerVars, ghostVars, log>>

\* self.move(scan_axes[-3][i], axes[-3])
MoveI(t) ==
    /\ th[t].pc = "move_i"
    /\ \E ok \in BOOLEAN :
        /\ Move(t, "move", th[t].n - 2, th[t].sa[th[t].n - 2][IVal(t) + 1], ok)
        /\ IF ok THEN Goto(t, "scan_call") ELSE Raise(t, "traversal")
    /\ UNCHANGED <<cfgVars, gridVars, scanVars, unitVars, callerVars, ghostVars>>

\* the index tuple of the point the loops are at: (i, j, k) or (j, k)
Point(t) == IF th[t].n = 3 THEN <<IVal(t), JVal(t), KVal(t)>> ELSE <<JVal(t), KVal(t)>>

\* self.indices = (i, j, k); self._timed_scan_function(i, j, k), up to the
\* return of self.scan_function(*indices), which may raise, and
\* dt = time.time() - t0: the call took dt time units
ScanCallTook(t, dt) ==
    /\ th[t].pc = "scan_call"
    /\ indices' = Point(t)
    /\ callsAfterAbort' = IF abort_requested THEN callsAfterAbort + 1 ELSE callsAfterAbort
    /\ \E ok \in BOOLEAN :
        /\ log' = Append(log, ScanEv(t, Point(t), ok, IF ok THEN dt ELSE 0))
        /\ IF ok THEN th' = [th EXCEPT ![t].pc = "record", ![t].dt = dt]
           ELSE Raise(t, "traversal")
    /\ UNCHANGED <<cfgVars, gridVars, unitVars, callerVars, status, abort_requested,
                   acquiring, index, step_times, startSnap, abortRet>>

\* a measurement that takes one time unit
ScanCall(t) == ScanCallTook(t, 1)

\* Record with the index tuple in reversed axis order, (k, j, i) (faulty variant)
RecordTransposed(t) ==
    /\ th[t].pc = "record"
    /\ IF Reverse(Point(t)) \in DOMAIN step_times.val
       THEN /\ step_times' = [step_times EXCEPT !.val[Reverse(Point(t))] = Finite(th[t].dt)]
            /\ Goto(t, "incr")
       ELSE /\ Raise(t, "IndexError")
            /\ UNCHANGED step_times
    /\ UNCHANGED <<cfgVars, gridVars, unitVars, callerVars, ghostVars, log, status,
                   abort_requested, acquiring, index, indices>>

\* self._step_times[indices] = dt
Record(t) ==
    /\ th[t].pc = "record"
    /\ IF Point(t) \in DOMAIN step_times.val
       THEN /\ step_times' = [step_times EXCEPT !.val[Point(t)] = Finite(th[t].dt)]
            /\ Goto(t, "incr")
       ELSE /\ Raise(t, "IndexError")
            /\ UNCHANGED step_times
    /\ UNCHANGED <<cfgVars, gridVars, unitVars, callerVars, ghostVars, log, status,
                   abort_requested, acquiring, index, indices>>

\* self._index += 1
Incr(t) ==
    /\ th[t].pc = "incr"
    /\ index' = index + 1
    /\ Goto(t, IF th[t].n = 3 THEN "i_head" ELSE "j_head")
    /\ UNCHANGED <<cfgVars, gridVars, unitVars, callerVars, ghostVars, log, status,
                   abort_requested, acquiring, indices, step_times>>

\* -------------------------------------------- the scan thread: after the loops
\* AfterLoop where an aborted scan skips the moves back to init (faulty variant)
AfterLoopSkipOnAbort(t) ==
    /\ th[t].pc = "after_loop"
    /\ acquiring' = FALSE
    /\ th' = [th EXCEPT ![t].pc = IF abort_requested THEN "analyse" ELSE "ret_move",
                        ![t].r = 1]
    /\ UNCHANGED <<cfgVars, gridVars, unitVars, callerVars, ghostVars, log, status,
                   abort_requested, index, indices, step_times>>

\* self.print_scan_time(...); self.acquiring.clear()
AfterLoop(t) ==
    /\ th[t].pc = "after_loop"
    /\ acquiring' = FALSE
    /\ th' = [th EXCEPT ![t].pc = "ret_move", ![t].r = 1]
    /\ UNCHANGED <<cfgVars, gridVars, unitVars, callerVars, ghostVars, log, status,
                   abort_requested, index, indices, step_times>>

\* for i in range(len(axes)): self.move(init[i], axes[i])
RetMove(t) ==
    /\ th[t].pc = "ret_move"
    /\ \E ok \in BOOLEAN :
        /\ Move(t, "move_init", th[t].r, th[t].init[th[t].r], ok)
        /\ IF ~ok THEN Raise(t, "return")
           ELSE th' = [th EXCEPT ![t].r = @ + 1,
                                 ![t].pc = IF th[t].r = th[t].n THEN "analyse" ELSE "ret_move"]
    /\ UNCHANGED <<cfgVars, gridVars, scanVars, unitVars, callerVars, ghostVars>>

\* self.analyse_scan()
Analyse(t) ==
    /\ th[t].pc = "analyse"
    /\ log' = Append(log, Call("analyse_scan", t))
    /\ Goto(t, "close")
    /\ UNCHANGED <<cfgVars, gridVars, scanVars, unitVars, callerVars, ghostVars>>

\* CloseScan without the call of update (faulty variant)
CloseScanSilent(t) ==
    /\ th[t].pc = "close"
    /\ Goto(t, "status_complete")
    /\ UNCHANGED <<cfgVars, gridVars, scanVars, unitVars, callerVars, ghostVars, log>>

\* self.close_scan(): self.update(force=True).  In GridScannerQT.update the
\* calling thread is the scan thread, which is alive: the timer is not stopped.
CloseScan(t) ==
    /\ th[t].pc = "close"
    /\ log' = Append(log, Call("update_force", t))
    /\ Goto(t, "status_complete")
    /\ UNCHANGED <<cfgVars, gridVars, scanVars, unitVars, callerVars, ghostVars>>

\* self.status = 'scan complete'
StatusComplete(t) ==
    /\ th[t].pc = "status_complete"
    /\ status' = Status("scan complete", 0, 0)
    /\ th' = [th EXCEPT ![t] = Ended(th[t], "done", "none")]
    /\ UNCHANGED <<cfgVars, gridVars, unitVars, callerVars, ghostVars, log,
                   abort_requested, acquiring, index, indices, step_times>>

\* ----------------------------------------------------------- specification
Params == {"size", "step", "init"}

ArrayOf(p) == CASE p = "size" -> size [] p = "step" -> step [] p = "init" -> init

UnitOf(p) == CASE p = "size" -> size_unit [] p = "step" -> step_unit [] p = "init" -> init_unit

\* RescaleFactor with the table entries multiplied, not divided (faulty variant)
RescaleFactorMul(old, new) == unit_conversion(old) + unit_conversion(new)

\* self._unit_conversion[old_value] / self._unit_conversion[value], as a power of ten
RescaleFactor(old, new) == unit_conversion(old) - unit_conversion(new)

\* Rescaled where only the unit tag changes and the array is left as it is
\* (faulty variant)
RescaledTagOnly(a, old, new) == a

\* a *= factor, on an array
Rescaled(a, old, new) == [i \in DOMAIN a |-> Scale(a[i], RescaleFactor(old, new))]

\* the last two unit changes, when they were made on the same parameter
Tripped(p, v) ==
    LET again == trip.n >= 1 /\ trip.p = p
    IN  [n |-> IF again THEN 2 ELSE 1, p |-> p, req |-> v,
         u2 |-> IF again THEN trip.u1 ELSE UnitOf(p),
         a2 |-> IF again THEN trip.a1 ELSE ArrayOf(p),
         u1 |-> UnitOf(p), a1 |-> ArrayOf(p)]

\* rescale_parameter(param, value), called as a method.  The array is scaled in
\* place: a scan thread started with it sees the new values.
RescaleParameter(p, v) ==
    /\ cpc = "idle"
    /\ unitOps < MaxUnitOps
    /\ unitOps' = unitOps + 1
    /\ trip' = Tripped(p, v)
    /\ built' = FALSE
    /\ callerRes' = "rescaled"
    /\ size_unit' = IF p = "size" THEN v ELSE size_unit
    /\ step_unit' = IF p = "step" THEN v ELSE step_unit
    /\ init_unit' = IF p = "init" THEN v ELSE init_unit
    /\ size' = IF p = "size" THEN Rescaled(size, size_unit, v) ELSE size
    /\ step' = IF p = "step" THEN Rescaled(step, step_unit, v) ELSE step
    /\ init' = IF p = "init" THEN Rescaled(init, init_unit, v) ELSE init
    /\ th' = [t \in Threads |->
                IF p \in th[t].alias
                THEN [th[t] EXCEPT !.size = IF p = "size" THEN size' ELSE @,
                                   !.step = IF p = "step" THEN step' ELSE @,
                                   !.init = IF p = "init" THEN init' ELSE @]
                ELSE th[t]]
    /\ UNCHANGED <<isQT, num_axes, axes, axes_names, gridVars, scanVars, ghostVars, log,
                   acquisition_thread, timer_active, cpc, nstarts, cfgOps, upd>>

\* obj.size_unit = v (step_unit, init_unit): the property's fset is
\* partial(rescale_parameter, param=...), which the property calls with
\* (obj, v): rescale_parameter gets param twice and raises TypeError before
\* its body runs.
SetUnitProperty(p, v) ==
    /\ cpc = "idle"
    /\ unitOps < MaxUnitOps
    /\ unitOps' = unitOps + 1
    /\ callerRes' = "TypeError"
    /\ UNCHANGED <<cfgVars, gridVars, scanVars, ghostVars, th, log, trip, built,
                   acquisition_thread, timer_active, cpc, nstarts, cfgOps, upd>>

\* init_current_grid(): self.init_grid(self.axes, self.size, self.step, self.init)
InitCurrentGrid ==
    /\ cpc = "idle"
    /\ IF GridError(Len(axes), size, step)
       THEN /\ callerRes' = "numpy_error"
            /\ UNCHANGED <<gridVars, built>>
       ELSE LET sa == InitGrid(Len(axes), size, step, init, size_unit, step_unit, init_unit)
            IN  /\ scan_axes' = sa
                /\ grid_shape' = GridShape(sa)
                /\ total_points' = Product(GridShape(sa))
                /\ built' = TRUE
                /\ callerRes' = "grid_built"
    /\ UNCHANGED <<cfgVars, scanVars, ghostVars, th, log, trip, unitOps,
                   acquisition_thread, timer_active, cpc, nstarts, cfgOps, upd>>

\* the sum of the entries of _step_times at the index tuples of S
RECURSIVE SumTimes(_)
SumTimes(S) ==
    IF S = {} THEN 0
    ELSE LET x == CHOOSE y \in S : TRUE
         IN  step_times.val[x].v + SumTimes(S \ {x})

\* get_estimated_time_remaining with total_points, not the points that remain
\* (faulty variant)
get_estimated_time_remainingNoIndex ==
    IF ~step_times.has THEN [inf |-> TRUE, num |-> 0, den |-> 1]
    ELSE LET mask == {x \in DOMAIN step_times.val : step_times.val[x].fin}
         IN  IF mask = {} THEN [inf |-> FALSE, num |-> 0, den |-> 1]
             ELSE [inf |-> FALSE, num |-> total_points * SumTimes(mask),
                   den |-> Cardinality(mask)]

\* get_estimated_time_remaining(): np.inf without _step_times, 0 without a
\* finite entry, else (total_points - _index) * mean of the finite entries,
\* here as the fraction num / den of time units
get_estimated_time_remaining ==
    IF ~step_times.has THEN [inf |-> TRUE, num |-> 0, den |-> 1]
    ELSE LET mask == {x \in DOMAIN step_times.val : step_times.val[x].fin}
         IN  IF mask = {} THEN [inf |-> FALSE, num |-> 0, den |-> 1]
             ELSE [inf |-> FALSE, num |-> (total_points - index) * SumTimes(mask),
                   den |-> Cardinality(mask)]

\* a * 2. and a / 2. on an array
Doubled(a) == [i \in DOMAIN a |-> Norm(<<2 * a[i][1], a[i][2]>>)]

Halved(a) == [i \in DOMAIN a |-> Norm(<<5 * a[i][1], a[i][2] - 1>>)]

VaryNames == {"increase_size", "decrease_size", "increase_step", "decrease_step"}

\* vary_axes(name, 2.): self.size *= 2., self.size /= 2., self.step *= 2.,
\* self.step /= 2., in place: a scan thread started with the array sees it.
VaryAxes(name) ==
    /\ cpc = "idle"
    /\ cfgOps < MaxVary
    /\ cfgOps' = cfgOps + 1
    /\ size' = CASE name = "increase_size" -> Doubled(size)
                 [] name = "decrease_size" -> Halved(size)
                 [] OTHER -> size
    /\ step' = CASE name = "increase_step" -> Doubled(step)
                 [] name = "decrease_step" -> Halved(step)
                 [] OTHER -> step
    /\ th' = [t \in Threads |->
                [th[t] EXCEPT !.size = IF "size" \in th[t].alias THEN size' ELSE @,
                              !.step = IF "step" \in th[t].alias THEN step' ELSE @]]
    /\ built' = FALSE
    /\ trip' = NoTrip
    /\ callerRes' = "varied"
    /\ UNCHANGED <<isQT, num_axes, axes, axes_names, init, size_unit, step_unit, init_unit,
                   gridVars, scanVars, ghostVars, log, acquisition_thread, timer_active,
                   cpc, nstarts, unitOps, upd>>

\* ['']*n or np.zeros(n) with the first entries of cur stored over it
Padded(cur, n, zero) == [a \in 1..n |-> IF a <= Len(cur) THEN cur[a] ELSE zero]

\* Sliced as cur[-n:], the last n entries (faulty variant)
SlicedTail(cur, n) ==
    LET k == IF n >= 0 THEN Min2(n, Len(cur)) ELSE Max2(Len(cur) + n, 0)
    IN  SubSeq(cur, Len(cur) - k + 1, Len(cur))

\* the slice cur[:n]
Sliced(cur, n) ==
    LET k == IF n >= 0 THEN Min2(n, Len(cur)) ELSE Max2(Len(cur) + n, 0)
    IN  SubSeq(cur, 1, k)

Blank(n, zero) == [a \in 1..Max2(n, 0) |-> zero]

\* obj.num_axes = m: _update_axes(m) up to its if.  self._num_axes = m, then
\* the copies of the five sequences.
UpdateAxes(m) ==
    /\ cpc = "idle"
    /\ cfgOps < MaxCfgOps
    /\ cfgOps' = cfgOps + 1
    /\ num_axes' = m
    /\ upd' = [m |-> m, axes |-> axes, names |-> axes_names,
               size |-> size, step |-> step, init |-> init]
    /\ cpc' = IF m > Len(axes) THEN "grow_axes" ELSE "shrink_axes"
    /\ built' = FALSE
    /\ trip' = NoTrip
    /\ UNCHANGED <<isQT, axes, axes_names, size, step, init, size_unit, step_unit, init_unit,
                   gridVars, scanVars, ghostVars, th, log, acquisition_thread, timer_active,
                   callerRes, nstarts, unitOps>>

\* the caller's next position in _update_axes
UpdateNext(pc) ==
    CASE pc = "grow_axes" -> "grow_names" [] pc = "grow_names" -> "grow_size"
      [] pc = "grow_size" -> "grow_step" [] pc = "grow_step" -> "grow_init"
      [] pc = "grow_init" -> "copy_axes" [] pc = "copy_axes" -> "copy_names"
      [] pc = "copy_names" -> "copy_size" [] pc = "copy_size" -> "copy_step"
      [] pc = "copy_step" -> "copy_init" [] pc = "copy_init" -> "idle"
      [] pc = "shrink_axes" -> "shrink_names" [] pc = "shrink_names" -> "shrink_size"
      [] pc = "shrink_size" -> "shrink_step" [] pc = "shrink_step" -> "shrink_init"
      [] pc = "shrink_init" -> "idle"

\* the arrays a scan thread was started with are replaced, not changed
Unaliased(p) == [t \in Threads |-> [th[t] EXCEPT !.alias = @ \ {p}]]

\* the branch num_axes > len(current_axes): new sequences of the new length,
\* then the old entries stored into their first places, one statement a step
UpdateAxesGrow ==
    /\ cpc \in {"grow_axes", "grow_names", "grow_size", "grow_step", "grow_init",
                 "copy_axes", "copy_names", "copy_size", "copy_step", "copy_init"}
    /\ cpc' = UpdateNext(cpc)
    /\ axes' = CASE cpc = "grow_axes" -> Blank(upd.m, "")
                 [] cpc = "copy_axes" -> Padded(upd.axes, Len(axes), "")
                 [] OTHER -> axes
    /\ axes_names' = CASE cpc = "grow_names" -> Blank(upd.m, "")
                       [] cpc = "copy_names" -> Padded(upd.names, Len(axes_names), "")
                       [] OTHER -> axes_names
    /\ size' = CASE cpc = "grow_size" -> Blank(upd.m, <<0, 0>>)
                 [] cpc = "copy_size" -> Padded(upd.size, Len(size), <<0, 0>>)
                 [] OTHER -> size
    /\ step' = CASE cpc = "grow_step" -> Blank(upd.m, <<0, 0>>)
                 [] cpc = "copy_step" -> Padded(upd.step, Len(step), <<0, 0>>)
                 [] OTHER -> step
    /\ init' = CASE cpc = "grow_init" -> Blank(upd.m, <<0, 0>>)
                 [] cpc = "copy_init" -> Padded(upd.init, Len(init), <<0, 0>>)
                 [] OTHER -> init
    /\ th' = CASE cpc = "grow_size" -> Unaliased("size")
               [] cpc = "grow_step" -> Unaliased("step")
               [] cpc = "grow_init" -> Unaliased("init")
               [] OTHER -> th
    /\ callerRes' = IF cpc = "copy_init" THEN "axes_updated" ELSE callerRes
    /\ UNCHANGED <<isQT, num_axes, size_unit, step_unit, init_unit, gridVars, scanVars,
                   ghostVars, log, acquisition_thread, timer_active, nstarts,
                   trip, unitOps, built, cfgOps, upd>>

\* the else branch: the slices [:num_axes] of the copies, one statement a step
UpdateAxesShrink ==
    /\ cpc \in {"shrink_axes", "shrink_names", "shrink_size", "shrink_step", "shrink_init"}
    /\ cpc' = UpdateNext(cpc)
    /\ axes' = IF cpc = "shrink_axes" THEN Sliced(upd.axes, upd.m) ELSE axes
    /\ axes_names' = IF cpc = "shrink_names" THEN Sliced(upd.names, upd.m) ELSE axes_names
    /\ size' = IF cpc = "shrink_size" THEN Sliced(upd.size, upd.m) ELSE size
    /\ step' = IF cpc = "shrink_step" THEN Sliced(upd.step, upd.m) ELSE step
    /\ init' = IF cpc = "shrink_init" THEN Sliced(upd.init, upd.m) ELSE init
    /\ th' = CASE cpc = "shrink_size" -> Unaliased("size")
               [] cpc = "shrink_step" -> Unaliased("step")
               [] cpc = "shrink_init" -> Unaliased("init")
               [] OTHER -> th
    /\ callerRes' = IF cpc = "shrink_init" THEN "axes_updated" ELSE callerRes
    /\ UNCHANGED <<isQT, num_axes, size_unit, step_unit, init_unit, gridVars, scanVars,
                   ghostVars, log, acquisition_thread, timer_active, nstarts,
                   trip, unitOps, built, cfgOps, upd>>

\* the steps of scan_grid but the call of scan_function
ScanGridStep(t) ==
    \/ Reset(t) \/ InitGridStep(t) \/ OpenScan(t) \/ SetIndices(t) \/ Index0(t)
    \/ Zeros(t) \/ FillNan(t) \/ StatusAcq(t) \/ AcqSet(t)
    \/ KHead(t) \/ Drift(t) \/ LayerStatus(t) \/ MoveK(t) \/ RevJ(t)
    \/ JHead(t) \/ MoveJ(t) \/ RevI(t) \/ IHead(t) \/ MoveI(t)
    \/ Record(t) \/ Incr(t)
    \/ AfterLoop(t) \/ RetMove(t) \/ Analyse(t) \/ CloseScan(t) \/ StatusComplete(t)

\* a step of a scan thread; every measurement takes one time unit (the times
\* are read by get_estimated_time_remaining only, see SpecTime)
ThreadStep(t) == ScanGridStep(t) \/ ScanCall(t)

Next ==
    \/ Start \/ StartQT \/ QtWaitBlock \/ QtWaitReturn
    \/ Abort \/ AbortSet \/ AbortJoin
    \/ \E t \in Threads : ThreadStep(t)

Spec == Init /\ [][Next]_vars

\* The scheduling: a scan thread that can take a step takes one, and a call the
\* caller is in (the wait of GridScannerQT.start, abort) goes on when it can.
CallerStep == QtWaitBlock \/ QtWaitReturn \/ AbortSet \/ AbortJoin

\* the objects of Init with a size of one step (two points) on every axis
InitFair == Init /\ \A a \in 1..num_axes : size[a] = <<1, 0>>

SpecFair ==
    /\ InitFair
    /\ [][Next]_vars
    /\ WF_vars(\E t \in Threads : ThreadStep(t))
    /\ WF_vars(CallerStep)

\* ---------------------------------------------- the refresh timer of the GUI
\* GridScannerQT.update as the slot of timer.timeout (line 330).  The timer
\* lives in the thread of the event loop: a tick is delivered only while that
\* thread is in no call of start() or abort().  The emits that follow the test
\* change nothing of the scanner.
TimerTick ==
    /\ isQT /\ cpc = "idle" /\ timer_active
    /\ acquisition_thread # 0
    /\ IF ~Alive(acquisition_thread)
       THEN timer_active' = FALSE /\ callerRes' = "tick_stop"
       ELSE timer_active' = TRUE /\ callerRes' = "tick"
    /\ UNCHANGED <<cfgVars, gridVars, scanVars, unitVars, ghostVars, th, log,
                   acquisition_thread, cpc, nstarts>>

\* GridScannerQT objects with a size of one step on every axis
InitTimer == InitFair /\ isQT

NextTimer ==
    \/ StartQT \/ QtWaitBlock \/ QtWaitReturn
    \/ Abort \/ AbortSet \/ AbortJoin
    \/ TimerTick
    \/ \E t \in Threads : ThreadStep(t)

\* The scheduling of SpecFair, and an event loop that delivers a due tick
\* whenever its thread is idle.
SpecTimer ==
    /\ InitTimer
    /\ [][NextTimer]_vars
    /\ WF_vars(\E t \in Threads : ThreadStep(t))
    /\ WF_vars(CallerStep)
    /\ WF_vars(TimerTick)

\* ------------------------------------------- the grid builder and the units
\* One axis, or two with the second fixed, in um as constructed: sizes of
\* 0..MaxMant um, steps of 0.05, 0.3, 0.5 and 1 um, zero and negative, centres
\* 0, 0.25 and 5 um; grids of at most MaxPoints points per axis.
GridSizes == {<<m, 0>> : m \in 0..MaxMant}

GridSteps == {<<5, -2>>, <<3, -1>>, <<5, -1>>, <<1, 0>>, <<0, 0>>, <<-1, 0>>}

GridInits == {<<0, 0>>, <<25, -2>>, <<5, 0>>}

InitGridSpec ==
    /\ isQT = FALSE
    /\ \E n \in 1..2 : InitObject(n)
    /\ \E s \in GridSizes, st \in GridSteps, c \in GridInits :
        /\ st[1] # 0 => AxisLen(Scale(s, -6), Scale(st, -6), Scale(c, -6)) <= MaxPoints
        /\ size = [a \in 1..num_axes |-> IF a = 1 THEN s ELSE <<2, 0>>]
        /\ step = [a \in 1..num_axes |-> IF a = 1 THEN st ELSE <<1, 0>>]
        /\ init = [a \in 1..num_axes |-> IF a = 1 THEN c ELSE <<5, 0>>]

NextGrid ==
    \/ \E p \in Params, v \in Units : RescaleParameter(p, v)
    \/ \E p \in Params, v \in Units : SetUnitProperty(p, v)
    \/ InitCurrentGrid

SpecGrid == InitGridSpec /\ [][NextGrid]_vars

\* ------------------------------------------ the grid of a changed axis list
\* The objects of SpecGrid with num_axes set to 0, 1 or 2 and the grid rebuilt
\* by init_current_grid: no axis, axes without points (negative step), and
\* added axes, whose step of 0 makes np.arange raise.
MaxShapeAxes == 2

NextShape ==
    \/ \E m \in 0..MaxShapeAxes : UpdateAxes(m)
    \/ UpdateAxesGrow
    \/ UpdateAxesShrink
    \/ InitCurrentGrid

SpecShape == InitGridSpec /\ [][NextShape]_vars

\* ------------------------------------- the configuration changed under a scan
\* The scans of Spec without abort(), with the caller's size and step buttons
\* (vary_axes) and the update button (init_current_grid) pressed at any time,
\* on objects of up to three axes with a size of one step on every axis.
InitCfg == Init /\ num_axes <= 3 /\ \A a \in 1..num_axes : size[a] = <<1, 0>>

NextCfg ==
    \/ Start \/ StartQT \/ QtWaitBlock \/ QtWaitReturn
    \/ \E name \in VaryNames : VaryAxes(name)
    \/ InitCurrentGrid
    \/ \E t \in Threads : ThreadStep(t)

SpecCfg == InitCfg /\ [][NextCfg]_vars

\* ------------------------------------------------- the times of the points
\* Scans whose measurements take 1..MaxDt time units each, on grids of
\* 2 x 2 points (two axes) and 2 x 1 x 1 points (three axes, size 0 on the
\* last two).
InitTime ==
    /\ isQT \in BOOLEAN
    /\ \E n \in 2..3 : InitObject(n)
    /\ size = [a \in 1..num_axes |-> IF a = 1 \/ num_axes = 2 THEN <<1, 0>> ELSE <<0, 0>>]
    /\ step = [a \in 1..num_axes |-> <<1, 0>>]
    /\ init = [a \in 1..num_axes |-> <<5, 0>>]

NextTime ==
    \/ Start \/ StartQT \/ QtWaitBlock \/ QtWaitReturn
    \/ \E t \in Threads : ScanGridStep(t)
    \/ \E t \in Threads, dt \in 1..MaxDt : ScanCallTook(t, dt)

SpecTime == InitTime /\ [][NextTime]_vars

\* ------------------------------------------------------ the number of axes
\* num_axes set to -1..MaxAxes (the field takes any integer) on an object of
\* 1..MaxAxes axes with the sizes and steps of Init.
NextAxes ==
    \/ \E m \in -1..MaxAxes : UpdateAxes(m)
    \/ UpdateAxesGrow
    \/ UpdateAxesShrink

SpecAxes == Init /\ [][NextAxes]_vars

\* ================================================================== claims
\* The log holds the calls of the scan spawned last: acquisition_thread's.
ScanCalls == SelectSeq(log, LAMBDA e : e.op = "scan_function")

StageMoves == SelectSeq(log, LAMBDA e : e.op \in {"move", "move_init"})

\* the scan calls of the log before the p-th that were made in the same layer
InLayerBefore(sc, p) ==
    Cardinality({q \in 1..(p - 1) : sc[q].idx[Len(sc[q].idx)] = sc[p].idx[Len(sc[p].idx)]})

TwoAxisScan == acquisition_thread # 0 /\ th[acquisition_thread].n = 2

\* C1 as stated: in a 2-axis scan the inner axis is visited in ascending order
\* 0,1,...,n-1 while the outer index is 0 (and every even outer index), and in
\* descending order in the layers between.
C1_AscendingFirst ==
    TwoAxisScan =>
        LET sc == ScanCalls
            L == th[acquisition_thread].shape[1]
        IN  \A p \in 1..Len(sc) :
                sc[p].idx[1] = IF sc[p].idx[2] % 2 = 0
                               THEN InLayerBefore(sc, p)
                               ELSE L - 1 - InLayerBefore(sc, p)

\* C1 amended: in a 2-axis scan the inner axis is traversed in snake order
\* starting in descending order: at outer index 0 (and every even outer index)
\* the inner indices are visited as n-1,...,1,0, at odd outer indices as
\* 0,1,...,n-1; the direction is reversed each time the outer axis advances.
C1_SnakeDescendingFirst ==
    TwoAxisScan =>
        LET sc == ScanCalls
            L == th[acquisition_thread].shape[1]
        IN  \A p \in 1..Len(sc) :
                sc[p].idx[1] = IF sc[p].idx[2] % 2 = 0
                               THEN L - 1 - InLayerBefore(sc, p)
                               ELSE InLayerBefore(sc, p)

\* a 2-axis scan of shape (3, 2) ran through: inner [2,1,0], then [0,1,2]
C1_Witness ==
    /\ TwoAxisScan
    /\ th[acquisition_thread].pc = "done"
    /\ th[acquisition_thread].shape = <<3, 2>>
    /\ [p \in 1..Len(ScanCalls) |-> ScanCalls[p].idx] =
           <<<<2, 0>>, <<1, 0>>, <<0, 0>>, <<0, 1>>, <<1, 1>>, <<2, 1>>>>

\* C2: once abort_requested is true during the traversal of a 2-D or 3-D
\* grid, at most one more scan_function call is made in that scan.
C2_AtMostOneCallAfterAbort == callsAfterAbort <= 1

\* a 3-D scan was aborted between the test of the flag and the call, made that
\* one call and has left the loops
C2_Witness ==
    /\ acquisition_thread # 0
    /\ th[acquisition_thread].n = 3
    /\ th[acquisition_thread].pc = "ret_move"
    /\ callsAfterAbort = 1
    /\ index < total_points

\* the last len(axes) stage moves of the log are the moves to init, in axis order
EndsAtInit(t) ==
    LET mv == StageMoves
        n == th[t].n
    IN  /\ Len(mv) >= n
        /\ \A a \in 1..n :
               mv[Len(mv) - n + a] = Ev("move_init", t, a, th[t].init[a], <<>>, TRUE)

\* C3 as stated: when abort() returns from joining a scan thread, the thread has
\* exited, the last stage moves of the scan took every axis to its init
\* position, and nothing is called afterwards until the next start().  (Left
\* out: a scan that ended in init_grid's error, before any motion, and one whose
\* move back to init itself raised.)
C3_AbortReturnsAtOrigin ==
    (abortRet.valid /\ th[abortRet.t].fail \notin {"init_grid", "return"}) =>
        /\ ~Alive(abortRet.t)
        /\ EndsAtInit(abortRet.t)
        /\ Len(log) = abortRet.loglen

\* C4: when the traversal loop has been left, normally or by an abort, every
\* axis is moved to its init position after the last scan_function call (and
\* the last grid move) and before analyse_scan, close_scan and the status
\* 'scan complete'.
C4_ReturnBeforeClose ==
    \A t \in Threads :
        (t = acquisition_thread /\ th[t].pc \in {"analyse", "close", "status_complete", "done"}) =>
            \E p \in 1..Len(log) :
                /\ \A a \in 1..th[t].n :
                       /\ p + a - 1 <= Len(log)
                       /\ log[p + a - 1] = Ev("move_init", t, a, th[t].init[a], <<>>, TRUE)
                /\ \A q \in 1..Len(log) :
                       /\ log[q].op \in {"scan_function", "move"} => q < p
                       /\ log[q].op \in {"analyse_scan", "update_force"} => q >= p + th[t].n
                /\ (status.s = "scan complete" => th[t].pc = "done")

\* an aborted scan that measured some but not all points has completed
C4_Witness ==
    /\ acquisition_thread # 0
    /\ th[acquisition_thread].pc = "done"
    /\ abort_requested
    /\ Len(ScanCalls) > 0
    /\ index < total_points
    /\ status.s = "scan complete"

\* C5: at most one scan thread is alive at any time; a start() issued while
\* one is alive spawns none.
C5_OneScanThread == Cardinality({t \in Threads : Alive(t)}) <= 1

\* start() was called while the scan thread was alive, with a Thread left to spawn
C5_Witness ==
    /\ callerRes = "already_running"
    /\ nstarts < MaxStarts
    /\ Cardinality({t \in Threads : Alive(t)}) = 1

\* C6 as stated: when a start() that spawned a scan returns, the scan thread has
\* reset abort_requested, rebuilt the grid, zeroed the index, allocated the
\* NaN step_times and set a running status (all done once 'acquiring data' is set).
C6_StartReturnsRunning == startSnap.valid => startSnap.entered

HasInitMove(a) == \E q \in 1..Len(log) : log[q].op = "move_init" /\ log[q].axis = a

\* C7 as stated: when scan_function or a stage move raises during the
\* traversal, the moves of all axes back to init are attempted before the
\* exception leaves scan_grid (the thread ends).
C7_CleanupOnError ==
    \A t \in Threads :
        (t = acquisition_thread /\ th[t].pc = "failed" /\ th[t].fail = "traversal") =>
            \A a \in 1..th[t].n : HasInitMove(a)

\* an axis of nonzero size with a zero or negative step
BadStep(t) == \E a \in 1..th[t].n : th[t].size[a][1] # 0 /\ th[t].step[a][1] <= 0

\* C8 as stated: a non-positive step on an axis of nonzero size is reported by
\* init_grid as an error, and the scan then issues no stage move at all.
C8_BadStepIsConfigError ==
    \A t \in Threads :
        (t = acquisition_thread /\ BadStep(t) /\ th[t].pc \notin {"none", "reset", "init_grid"}) =>
            /\ th[t].pc = "failed" /\ th[t].fail = "init_grid"
            /\ Len(StageMoves) = 0

\* decimal arithmetic for the statements about the grid
Add(x, y) ==
    LET e0 == Min2(x[2], y[2])
    IN  Norm(<<Align(x, e0) + Align(y, e0), e0>>)

Neg(x) == <<-x[1], x[2]>>

Half(x) == Norm(<<5 * x[1], x[2] - 1>>)

Times(x, n) == Norm(<<n * x[1], x[2]>>)

BaseSize(a) == Scale(size[a], unit_conversion(size_unit))

BaseStep(a) == Scale(step[a], unit_conversion(step_unit))

BaseInit(a) == Scale(init[a], unit_conversion(init_unit))

\* C9: for every axis whose size is n times its positive step, init_grid gives
\* n+1 coordinates, spaced by step, from center - size/2 to center + size/2.
C9_GridOfExactMultiple ==
    built =>
        \A a \in 1..num_axes : \A n \in 0..MaxPoints :
            (BaseStep(a)[1] > 0 /\ BaseSize(a) = Times(BaseStep(a), n)) =>
                LET ax == scan_axes[a]
                IN  /\ Len(ax) = n + 1
                    /\ grid_shape[a] = n + 1
                    /\ ax[1] = Add(BaseInit(a), Neg(Half(BaseSize(a))))
                    /\ ax[n + 1] = Add(BaseInit(a), Half(BaseSize(a)))
                    /\ \A i \in 1..n : Add(ax[i + 1], Neg(ax[i])) = BaseStep(a)

\* size 1.0 um, step 0.05 um, center 0: 21 points from -0.5 um to 0.5 um
C9_Witness ==
    /\ built
    /\ BaseSize(1) = <<1, -6>> /\ BaseStep(1) = <<5, -8>> /\ BaseInit(1) = <<0, 0>>
    /\ Len(scan_axes[1]) = 21
    /\ scan_axes[1][1] = <<-5, -7>> /\ scan_axes[1][21] = <<5, -7>>

Phys(a, u) == [i \in DOMAIN a |-> Scale(a[i], unit_conversion(u))]

\* size, step, init and their units as they were before the last unit change
Before(q) == IF trip.p = q THEN [a |-> trip.a1, u |-> trip.u1] ELSE [a |-> ArrayOf(q), u |-> UnitOf(q)]

C12_RemainingTimeNotNegative ==
    (acquisition_thread # 0 /\ Alive(acquisition_thread)) =>
        LET etr == get_estimated_time_remaining
        IN  /\ etr.inf \/ etr.num >= 0
            /\ (step_times.has /\ \A x \in DOMAIN step_times.val : ~step_times.val[x].fin)
                   => (~etr.inf /\ etr.num = 0)

\* new is old with its entries kept in place and zero in the places after them
KeptAndFilled(new, old, m, zero) ==
    /\ Len(new) = m
    /\ \A i \in 1..m : new[i] = IF i <= Len(old) THEN old[i] ELSE zero

\* new is the first m entries of old, in their order
FirstOf(new, old, m) ==
    /\ Len(new) = m
    /\ \A i \in 1..m : new[i] = old[i]

\* C13: after num_axes = m, m >= 0: for m above the old number of axes, axes,
\* axes_names, size, step and init keep their entries in place and the new
\* trailing entries are '' (axes, axes_names) and 0 (size, step, init); for
\* m not above it they are their own first m entries.
C13_ResizeKeepsPrefix ==
    (cpc = "idle" /\ cfgOps >= 1 /\ upd.m >= 0) =>
        IF upd.m > Len(upd.axes)
        THEN /\ KeptAndFilled(axes, upd.axes, upd.m, "")
             /\ KeptAndFilled(axes_names, upd.names, upd.m, "")
             /\ KeptAndFilled(size, upd.size, upd.m, <<0, 0>>)
             /\ KeptAndFilled(step, upd.step, upd.m, <<0, 0>>)
             /\ KeptAndFilled(init, upd.init, upd.m, <<0, 0>>)
        ELSE /\ FirstOf(axes, upd.axes, upd.m)
             /\ FirstOf(axes_names, upd.names, upd.m)
             /\ FirstOf(size, upd.size, upd.m)
             /\ FirstOf(step, upd.step, upd.m)
             /\ FirstOf(init, upd.init, upd.m)

\* num_axes went from 2 to 4 and then back to 1
C13_Witness ==
    /\ cpc = "idle" /\ cfgOps = 2
    /\ upd.m = 1 /\ Len(upd.axes) = 4
    /\ upd.size[1][1] # 0 /\ upd.size[3] = <<0, 0>> /\ upd.axes[4] = ""
    /\ size = <<upd.size[1]>> /\ axes = <<AxisName(1)>>

\* C14 as stated: in every state, also between two statements of _update_axes
\* (another thread can run there), axes, axes_names, size, step and init have
\* the length num_axes.
C14_LengthsEqualNumAxes ==
    /\ Len(axes) = num_axes
    /\ Len(axes_names) = num_axes
    /\ Len(size) = num_axes
    /\ Len(step) = num_axes
    /\ Len(init) = num_axes

\* the same at the return of _update_axes only
C14_LengthsAtRest == cpc = "idle" => C14_LengthsEqualNumAxes

\* the places of the log where op was called
CallsOf(op) == {q \in 1..Len(log) : log[q].op = op}

\* C15 as stated: in a scan run that has terminated (here: not by a failure of
\* the stage, of scan_function or of np.arange), open_scan, analyse_scan and
\* close_scan (its update(force=True)) were each called once, open_scan before
\* every move and scan_function call, analyse_scan and then close_scan after
\* every scan_function call.
C15_HooksOnceInOrder ==
    \A t \in Threads :
        (/\ t = acquisition_thread
         /\ th[t].pc \in {"done", "failed"}
         /\ th[t].fail \notin {"init_grid", "traversal", "return"}) =>
            /\ Cardinality(CallsOf("open_scan")) = 1
            /\ Cardinality(CallsOf("analyse_scan")) = 1
            /\ Cardinality(CallsOf("update_force")) = 1
            /\ \A o \in CallsOf("open_scan"), a \in CallsOf("analyse_scan"),
                  c \in CallsOf("update_force") :
                   /\ o < a /\ a < c
                   /\ \A q \in CallsOf("scan_function") \cup CallsOf("move") : o < q
                   /\ \A q \in CallsOf("scan_function") : q < a

\* the scan spawned last has returned from scan_grid after an abort request
\* made it leave the loops before every point was visited
EndedByAbort(t) ==
    /\ t = acquisition_thread
    /\ th[t].pc = "done"
    /\ abort_requested
    /\ Len(ScanCalls) < Product(th[t].shape)

\* C16 as stated: a scan cut short by abort_requested ends without an
\* exception, after the moves to init, analyse_scan and close_scan, with a final
\* status that differs from the one of a scan that visited every point.
C16_AbortedStatusDistinct ==
    \A t \in Threads :
        EndedByAbort(t) =>
            /\ \A a \in 1..th[t].n : HasInitMove(a)
            /\ CallsOf("analyse_scan") # {} /\ CallsOf("update_force") # {}
            /\ status # Status("scan complete", 0, 0)

\* the scan thread t is alive and has built its grid (line 242)
GridBuiltBy(t) == Alive(t) /\ th[t].pc \notin {"reset", "init_grid"}

\* ... and has allocated _step_times (line 249)
TimesAllocatedBy(t) ==
    GridBuiltBy(t) /\ th[t].pc \notin {"open_scan", "indices", "index0", "zeros"}

\* C17 as stated: while a scan thread is alive, scan_axes, grid_shape and
\* total_points are those of the grid the scan built at its start, and
\* grid_shape is the shape of _step_times, whatever the caller does.
C17_GridFixedDuringScan ==
    \A t \in Threads :
        /\ GridBuiltBy(t) =>
               /\ scan_axes = th[t].sa
               /\ grid_shape = th[t].shape
               /\ total_points = Product(th[t].shape)
        /\ TimesAllocatedBy(t) => step_times.shape = grid_shape

\* a scan of more than three axes: what holds of it in every state
WideScanSafe(t) ==
    /\ th[t].pc = "failed" => th[t].fail \in {"init_grid", "traversal", "return"}
    /\ (t = acquisition_thread /\ th[t].pc = "done") =>
           /\ \A a \in 1..th[t].n : HasInitMove(a)
           /\ CallsOf("analyse_scan") # {} /\ CallsOf("update_force") # {}
           /\ CallsOf("scan_function") = {}
           /\ status = Status("scan complete", 0, 0)

\* C18: scan_grid on more than three axes raises nothing of its own (it ends by
\* an exception only when the stage or np.arange raises one), terminates, and
\* when it returns the moves to init, analyse_scan and close_scan were made and
\* status is 'scan complete'; no point is measured.
C18_WideScanCompletes ==
    /\ [](\A t \in Threads : th[t].n > 3 => WideScanSafe(t))
    /\ (\E t \in Threads : th[t].n > 3 /\ Alive(t))
           ~> (\A t \in Threads : th[t].n > 3 => th[t].pc \in {"none", "done", "failed"})

\* a scan of four axes has returned from scan_grid
C18_Witness ==
    /\ acquisition_thread # 0
    /\ th[acquisition_thread].n = 4
    /\ th[acquisition_thread].pc = "done"
    /\ status = Status("scan complete", 0, 0)
    /\ Len(StageMoves) > 4

\* C19 as stated: every GridScannerQT.start() returns: the caller that is in
\* the wait on the acquiring event gets out of it.
C19_QtStartReturns == (cpc \in {"qt_wait", "qt_blocked", "qt_woken"}) ~> (cpc = "idle")

\* C20 as stated: while abort() waits in join for a scan thread that is alive,
\* abort_requested, which it has set, is still true.
C20_AbortNotLost ==
    (cpc = "join" /\ acquisition_thread # 0 /\ Alive(acquisition_thread)) => abort_requested

\* the step is a start() that found the scan thread alive
StartWhileRunning ==
    /\ cpc = "idle"
    /\ callerRes' = "already_running"
    /\ callerRes # "already_running" \/ cpc' = "qt_wait"

\* C21: a GridScanner.start() made while a scan thread is alive leaves
\* abort_requested, _index, _step_times, indices, status, the grid and
\* acquisition_thread as they were, starts no thread and does not call init_scan.
C21_StartWhileRunningNoOp ==
    [][StartWhileRunning =>
           UNCHANGED <<abort_requested, index, step_times, indices, status, acquiring,
                       gridVars, acquisition_thread, nstarts, th, log>>]_vars

\* start() has returned 'scan already running' in the middle of a layer
C21_Witness ==
    /\ callerRes = "already_running"
    /\ acquisition_thread # 0 /\ Alive(acquisition_thread)
    /\ status.s = "Scanning layer"
    /\ index >= 1 /\ index < total_points

\* the index tuples scan_function was called with, in the order of the calls
Visited ==
    LET sc == ScanCalls
    IN  [p \in 1..Len(sc) |-> sc[p].idx]

\* the scan spawned last, of 2 or 3 axes, has returned from scan_grid and no
\* abort was requested
RanThrough(t) ==
    /\ t = acquisition_thread
    /\ th[t].n \in {2, 3}
    /\ th[t].pc = "done"
    /\ ~abort_requested

\* x is an index tuple of an array of the given shape
InGrid(x, shape) ==
    /\ Len(x) = Len(shape)
    /\ \A a \in 1..Len(x) : x[a] >= 0 /\ x[a] < shape[a]

\* C22: in a 2-D or 3-D scan that is not aborted and in which nothing raises,
\* scan_function is called exactly once for every index tuple of the grid and
\* for no other tuple (at no time is a tuple outside the grid or a tuple for the
\* second time), and at the end _index equals total_points.
C22_EveryPointOnce ==
    \A t \in Threads :
        LET v == Visited
            seen == {v[p] : p \in 1..Len(v)}
        IN  /\ (t = acquisition_thread /\ th[t].n \in {2, 3}) =>
                   /\ \A x \in seen : InGrid(x, th[t].shape)
                   /\ Cardinality(seen) = Len(v)
            /\ RanThrough(t) =>
                   /\ seen = IndexTuples(th[t].shape)
                   /\ Len(v) = Product(th[t].shape)
                   /\ index = Product(th[t].shape)
                   /\ index = total_points

\* a 3-D scan of shape (3, 2, 2) ran through its 12 points
C22_Witness ==
    /\ acquisition_thread # 0
    /\ RanThrough(acquisition_thread)
    /\ th[acquisition_thread].shape = <<3, 2, 2>>
    /\ Len(Visited) = 12
    /\ index = 12

ThreeAxisScan == acquisition_thread # 0 /\ th[acquisition_thread].n = 3

\* The q-th point (from 0) of a 3-D traversal of the given shape in which the
\* rows of the first axis alternate in direction from each row to the next (a
\* new row begins whenever the middle axis advances, also into a new layer), the
\* passes over the middle axis alternate from each layer to the next, and the
\* first row and the first pass run descending.
SnakePoint3(shape, q) ==
    LET row == q \div shape[1]
        layer == row \div shape[2]
        a == q % shape[1]
        b == row % shape[2]
    IN  <<IF row % 2 = 0 THEN shape[1] - 1 - a ELSE a,
          IF layer % 2 = 0 THEN shape[2] - 1 - b ELSE b,
          layer>>

\* C23: in a 3-D scan the direction of the first (innermost) axis is reversed
\* every time the middle axis advances, and the direction of the middle axis is
\* reversed every time the last (outermost) axis advances.
C23_Snake3D ==
    ThreeAxisScan =>
        LET v == Visited
        IN  \A p \in 1..Len(v) : v[p] = SnakePoint3(th[acquisition_thread].shape, p - 1)

\* a scan of shape (3, 2, 2) has entered its second layer: the rows ran
\* 2,1,0 then 0,1,2, and the row after the advance of the last axis 2,...
C23_Witness ==
    /\ ThreeAxisScan
    /\ th[acquisition_thread].shape = <<3, 2, 2>>
    /\ Len(Visited) >= 7
    /\ SubSeq(Visited, 1, 7) = <<<<2, 1, 0>>, <<1, 1, 0>>, <<0, 1, 0>>, <<0, 0, 0>>,
                                  <<1, 0, 0>>, <<2, 0, 0>>, <<2, 0, 1>>>>

Abs(x) == IF x < 0 THEN -x ELSE x

\* two index tuples that differ in exactly one axis, and by exactly 1
Neighbours(x, y) ==
    /\ Len(x) = Len(y)
    /\ \E a \in 1..Len(x) :
           /\ Abs(x[a] - y[a]) = 1
           /\ \A b \in 1..Len(x) : b # a => x[b] = y[b]

\* the axis in which two neighbours differ
StepAxis(x, y) == CHOOSE a \in 1..Len(x) : x[a] # y[a]

\* C24: in a 2-D or 3-D scan any two points measured one after the other are
\* neighbours, also across the advance of the middle and of the outermost axis.
C24_ConsecutiveNeighbours ==
    (acquisition_thread # 0 /\ th[acquisition_thread].n \in {2, 3}) =>
        LET v == Visited
        IN  \A p \in 1..(Len(v) - 1) : Neighbours(v[p], v[p + 1])

\* a 3-D scan with consecutive points across a step of each of the three axes
C24_Witness ==
    /\ ThreeAxisScan
    /\ \A a \in 1..3 :
           \E p \in 1..(Len(Visited) - 1) : StepAxis(Visited[p], Visited[p + 1]) = a

Drifts == CallsOf("update_drift_compensation")

\* a move to a position of the outermost (last) axis of the scan of thread t
OuterMove(e, t) == e.op = "move" /\ e.axis = th[t].n

\* what holds of the drift hook in every state of the scan spawned last
DriftPerLayer(t) ==
    LET d == Drifts
    IN  /\ \A q \in 1..Len(log) :
               OuterMove(log[q], t) => (q > 1 /\ log[q - 1].op = "update_drift_compensation")
        /\ \A q \in d :
               IF q = Len(log) THEN th[t].pc \in {"layer_status", "move_k"}
               ELSE OuterMove(log[q + 1], t)
        /\ \A q \in d :
               (Alive(t) /\ q < Len(log)) =>
                   log[q + 1].pos = th[t].sa[th[t].n][Cardinality({e \in d : e <= q})]
        /\ \A p \in 1..Len(log) :
               log[p].op = "scan_function" =>
                   Cardinality({e \in d : e < p}) = log[p].idx[Len(log[p].idx)] + 1
        /\ th[t].shape # <<>> => Cardinality(d) <= th[t].shape[th[t].n]

\* the outermost loop of thread t finds abort_requested set at a further layer:
\* it breaks, and nothing is called
BreakSkipsDrift(t) ==
    (th[t].pc = "k_head" /\ abort_requested /\ th'[t].pc # "k_head") =>
        (th'[t].pc = "after_loop" /\ log' = log)

\* C25: update_drift_compensation is called exactly once for each position of
\* the outermost axis that the scan enters, before the stage move to that
\* position and before every scan_function call of that layer, and it is not
\* called for a layer that an abort makes the scan skip.
C25_DriftOncePerLayer ==
    /\ [](acquisition_thread # 0 => DriftPerLayer(acquisition_thread))
    /\ [][\A t \in Threads : BreakSkipsDrift(t)]_vars

\* a scan of two layers was aborted in its first layer: one drift call, one
\* move of the outermost axis, points measured, the second layer not entered
C25_Witness ==
    /\ acquisition_thread # 0
    /\ th[acquisition_thread].pc = "done"
    /\ th[acquisition_thread].n \in {2, 3}
    /\ th[acquisition_thread].shape[th[acquisition_thread].n] = 2
    /\ abort_requested
    /\ Cardinality(Drifts) = 1
    /\ Len(Visited) >= 1

\* the scan thread t has just finished its set-up (lines 241-251), or is about
\* to measure its first point (line 272 or 276)
BeforeFirstPoint(t) ==
    /\ th[t].pc \in {"acq_set", "scan_call"}
    /\ index = 0 \/ Len(Visited) = 0

\* C26: every scan starts from fresh state, however the scan before it ended.
\* Before the first point _index is 0, indices is (-1,...), and _step_times
\* has the shape of the grid and holds NaN only; abort_requested is false from
\* line 241 on for as long as no abort() is waiting for this scan (a flag left
\* by the scan before is never seen); so a scan that returns with the flag
\* clear, also one started after an aborted scan, has visited the whole grid.
C26_FreshScanState ==
    \A t \in Threads :
        t = acquisition_thread =>
            /\ BeforeFirstPoint(t) =>
                   /\ index = 0
                   /\ indices = [a \in 1..th[t].n |-> -1]
                   /\ step_times.has /\ step_times.shape = th[t].shape
                   /\ \A x \in DOMAIN step_times.val :
                          InGrid(x, th[t].shape) /\ step_times.val[x] = NaN
                   /\ Cardinality(DOMAIN step_times.val) = Product(th[t].shape)
            /\ (Alive(t) /\ th[t].pc # "reset" /\ abort_requested) => cpc = "join"
            /\ (th[t].pc = "done" /\ th[t].n \in {2, 3} /\ ~abort_requested) =>
                   Cardinality({Visited[p] : p \in 1..Len(Visited)}) = Product(th[t].shape)

\* The first scan was cut short by an abort (it returned with _index below
\* its number of points).  The second has cleared the flag and built its grid;
\* _index still is the one of the first scan.
C26_Witness ==
    /\ acquisition_thread = 2
    /\ th[1].pc = "done" /\ th[1].n \in {2, 3} /\ index >= 1 /\ index < Product(th[1].shape)
    /\ th[2].pc = "index0" /\ th[2].n \in {2, 3}
    /\ ~abort_requested
    /\ indices = [a \in 1..th[2].n |-> -1]

\* the scan spawned last has more than three axes
WideScan == acquisition_thread # 0 /\ th[acquisition_thread].n > 3

\* ... and has returned from scan_grid, and no abort was requested
WideScanRanThrough == WideScan /\ th[acquisition_thread].pc = "done" /\ ~abort_requested

\* the moves of the traversal (not those back to init) made on axis a
MovesOn(a) == {q \in 1..Len(log) : log[q].op = "move" /\ log[q].axis = a}

\* C27 as stated: a scan of more than three axes measures the points of a
\* three-axis grid: when it has run through a grid without an empty axis,
\* scan_function was called, with index tuples of three entries.
C27_WideScanMeasuresThreeAxes ==
    (WideScanRanThrough /\ total_points > 0) =>
        /\ Len(Visited) > 0
        /\ \A p \in 1..Len(Visited) : Len(Visited[p]) = 3

\* C27 amended: a scan of more than three axes iterates over its last two axes
\* only: the traversal moves the stage on these two and on no other axis, once
\* per layer on the last and once per layer and row on the one before it, and
\* scan_function is never called; _index stays 0.
C27_WideScanMovesTwoAxesOnly ==
    WideScan =>
        LET t == acquisition_thread
            n == th[t].n
        IN  /\ Len(Visited) = 0
            /\ \A q \in 1..Len(log) : log[q].op = "move" => log[q].axis \in {n, n - 1}
            /\ th[t].entered => index = 0
            /\ WideScanRanThrough =>
                   /\ Cardinality(MovesOn(n)) = th[t].shape[n]
                   /\ Cardinality(MovesOn(n - 1)) = th[t].shape[n] * th[t].shape[n - 1]

\* a scan of four axes with a grid of 3 x 2 x 2 x 2 points ran through: two
\* moves on axis 4, four on axis 3, nothing measured
C27_Witness ==
    /\ WideScanRanThrough
    /\ th[acquisition_thread].shape = <<3, 2, 2, 2>>
    /\ Cardinality(MovesOn(4)) = 2 /\ Cardinality(MovesOn(3)) = 4
    /\ Len(Visited) = 0 /\ index = 0

\* the times of the scan_function calls of the log that returned and whose
\* time has been stored (the last one has not while the thread is at line 176)
StoredTimes ==
    LET ok == SelectSeq(log, LAMBDA e : e.op = "scan_function" /\ e.ok)
        n == IF th[acquisition_thread].pc = "record" THEN Len(ok) - 1 ELSE Len(ok)
    IN  [p \in 1..n |-> ok[p].dt]

RECURSIVE SeqSum(_)
SeqSum(q) == IF Len(q) = 0 THEN 0 ELSE Head(q) + SeqSum(Tail(q))

\* C28: with at least one finite entry in _step_times,
\* get_estimated_time_remaining returns (total_points - _index) times the mean
\* of the finite entries, which are the times measured in this scan; before any
\* scan has been started on the instance it returns the sentinel (np.inf).
C28_RemainingTimeFormula ==
    LET etr == get_estimated_time_remaining
    IN  /\ nstarts = 0 => etr.inf
        /\ (step_times.has /\ \E x \in DOMAIN step_times.val : step_times.val[x].fin) =>
               /\ ~etr.inf
               /\ etr.den = Cardinality({x \in DOMAIN step_times.val : step_times.val[x].fin})
        /\ (acquisition_thread # 0 /\ th[acquisition_thread].entered /\ Len(StoredTimes) > 0) =>
               /\ ~etr.inf
               /\ etr.num * Len(StoredTimes) =
                      etr.den * (total_points - index) * SeqSum(StoredTimes)

\* three of four points measured in 1, 2 and 2 time units: 5/3 units remain
C28_Witness ==
    /\ acquisition_thread # 0 /\ th[acquisition_thread].entered
    /\ StoredTimes = <<1, 2, 2>>
    /\ total_points = 4 /\ index = 3
    /\ get_estimated_time_remaining = [inf |-> FALSE, num |-> 5, den |-> 3]

\* the status values of a running scan
RunningStatus == {"acquiring data", "Scanning layer"}

NoScanThread == \A t \in Threads : ~Alive(t)

\* C29 as stated: status is 'inactive' before the first scan; it has a running
\* value ('acquiring data', then 'Scanning layer k/N', k the number of the layer
\* the scan is in, from 1) only while a scan thread is alive; whenever no scan
\* thread is alive, also after one that ended by an exception, status is not a
\* running value and the event 'acquiring' is clear.
C29_StatusStateMachine ==
    /\ nstarts = 0 => status = Status("inactive", 0, 0)
    /\ status.s \in RunningStatus => ~NoScanThread
    /\ NoScanThread => ~acquiring
    /\ \A t \in Threads :
           (Alive(t) /\ status.s = "Scanning layer") =>
               /\ status.k = th[t].kpos /\ status.k >= 1
               /\ status.n = IF th[t].pnts = <<>> THEN 0 ELSE Len(th[t].pnts[th[t].n])

\* C30 as stated: the position of the move back to init of axis a is the
\* centre of that axis's grid: init[a] as configured at the start of the scan,
\* in the base unit of the grid coordinates (init[a] times the factor of
\* init_unit), for every init_unit.  (init and init_unit are not changed in
\* these runs: they are those of the start of the scan.)
C30_ReturnToGridCentre ==
    \A q \in 1..Len(log) :
        log[q].op = "move_init" => log[q].pos = BaseInit(log[q].axis)

\* the index tuples with a finite entry in _step_times
FiniteEntries == {x \in DOMAIN step_times.val : step_times.val[x].fin}

\* the index tuples of the scan_function calls of the log that returned and
\* whose time has been stored
StoredPoints ==
    LET ok == SelectSeq(log, LAMBDA e : e.op = "scan_function" /\ e.ok)
        n == IF th[acquisition_thread].pc = "record" THEN Len(ok) - 1 ELSE Len(ok)
    IN  {ok[p].idx : p \in 1..n}

\* the scan spawned last has filled its _step_times with NaN (line 250)
TimesFilled == acquisition_thread # 0 /\ th[acquisition_thread].entered

\* what holds of _step_times in every state of a scan from line 251 on
TimesOfMeasuredPoints ==
    TimesFilled =>
        LET fin == FiniteEntries
        IN  /\ fin = StoredPoints
            /\ Cardinality(fin) =
                   IF th[acquisition_thread].pc = "incr" THEN index + 1 ELSE index

\* a step within a scan leaves every finite entry finite
NoEntryBackToNaN ==
    (TimesFilled /\ acquisition_thread' = acquisition_thread) =>
        \A x \in FiniteEntries : step_times'.val[x].fin

AbortWithoutLiveThread ==
    /\ cpc = "idle" /\ cpc' = "idle"
    /\ acquisition_thread = 0 \/ ~Alive(acquisition_thread)
    /\ callerRes' # callerRes
    /\ callerRes' \in {"abort_noop", "AttributeError"}

\* C32: abort() on a scanner on which no scan was ever started, or whose scan
\* thread has exited, returns without raising and without blocking, and
\* changes neither abort_requested nor any other state.
C32_AbortWithoutLiveThreadReturns ==
    [][AbortWithoutLiveThread =>
          /\ callerRes' = "abort_noop"
          /\ UNCHANGED <<cfgVars, gridVars, scanVars, unitVars, ghostVars,
                         acquisition_thread, timer_active, nstarts>>]_vars

\* where in the log of the current scan update(force=True) stands: at most
\* once, after analyse_scan, and once as soon as close_scan has returned
ForcedUpdateInPlace ==
    acquisition_thread # 0 =>
        LET u == CallsOf("update_force")
            a == CallsOf("analyse_scan")
        IN  /\ Cardinality(u) <= 1
            /\ \A q \in u : \E r \in a : r < q
            /\ th[acquisition_thread].pc \in {"status_complete", "done"} =>
                   Cardinality(u) = 1

\* a step that sets status to 'scan complete' finds the forced update made,
\* as the last call of the scan
CompleteAfterForcedUpdate ==
    (status' # status /\ status'.s = "scan complete") =>
        /\ Cardinality(CallsOf("update_force")) = 1
        /\ log[Len(log)].op = "update_force"

\* C33: close_scan makes exactly one forced progress notification,
\* update(force=True), per scan, after analyse_scan and before status is set
\* to 'scan complete', in scans that run through and in aborted scans.
C33_OneForcedUpdatePerScan ==
    /\ []ForcedUpdateInPlace
    /\ [][CompleteAfterForcedUpdate]_vars

\* an aborted scan has ended with its one forced update
C33_Witness ==
    /\ acquisition_thread # 0
    /\ EndedByAbort(acquisition_thread)
    /\ status.s = "scan complete"
    /\ Cardinality(CallsOf("update_force")) = 1

\* the scan thread started last has exited
ScanThreadExited == acquisition_thread # 0 /\ ~Alive(acquisition_thread)

\* the step is a timer tick (a tick that repeats the last one on a live
\* thread changes nothing)
IsTimerTick ==
    /\ cpc = "idle" /\ timer_active
    /\ callerRes' \in {"tick", "tick_stop"}
    /\ callerRes' # callerRes \/ timer_active' # timer_active

\* a tick stops the timer when and only when it finds the thread not alive
TickStopsOnlyAfterExit == IsTimerTick => (timer_active' <=> ~ScanThreadExited)

\* only the timer.start of start() makes a stopped timer active
StoppedUntilStart == (~timer_active /\ timer_active') => cpc \in {"qt_wait", "qt_woken"}

\* once the thread has exited the timer is stopped, unless a new scan is
\* started first
StoppedAfterExit ==
    (timer_active /\ ScanThreadExited) ~> (~timer_active \/ ~ScanThreadExited)

C35_ShapeAndTotalOfGrid ==
    /\ Len(grid_shape) = Len(scan_axes)
    /\ \A a \in 1..Len(scan_axes) : grid_shape[a] = Len(scan_axes[a])
    /\ total_points = Cardinality(IndexTuples(grid_shape))
    /\ grid_shape = <<>> => total_points = 1
    /\ (\E a \in 1..Len(scan_axes) : scan_axes[a] = <<>>) => total_points = 0

\* init_current_grid has built a grid of two axes, the first without points
C35_Witness ==
    /\ callerRes = "grid_built"
    /\ Len(scan_axes) = 2
    /\ grid_shape = <<0, 3>>
    /\ total_points = 0

====
